---- MODULE Spec2Model ----
(***************************************************************************)
(* Halloweenframe: a PIR motion detector (pirdetect.py) that polls a GPIO  *)
(* pin and dispatches edges to subscribed callbacks, and three scare       *)
(* programs built on it: scare.py (play a video), scare2.py (record the    *)
(* reaction, play the video, play the recording back) and scarerandom.py   *)
(* (scare2 plus a timed rotation of the video theme).                      *)
(*                                                                         *)
(* Three specifications share the Detector's actions:                      *)
(*   DetectorSpec  the Detector driven by arbitrary client callbacks;      *)
(*   Spec          one of the three programs from main() on, whose only    *)
(*                 subscriber is its on_motion method;                     *)
(*   FairSpec      Spec without the operator's interrupt, the thread and   *)
(*                 the child processes it waits for making progress.       *)
(***************************************************************************)
EXTENDS Integers, Sequences, FiniteSets, TLC

(***************************************************************************)
(* Bounds of the model.                                                    *)
(***************************************************************************)
\* Sensor reads per run of Detector.start in DetectorSpec (priming read included).
MaxSamples == 5
\* subscribe() calls a client makes in DetectorSpec.
MaxSubs == 2
\* Edges the polling loop dispatches in Spec.
MaxEdges == 3
\* Last value of the wall clock, in seconds.
MaxTime == 120

(***************************************************************************)
(* Program constants.                                                      *)
(***************************************************************************)
\* change_video: "while ... and attempts < 10", "if attempts >= 10".
MaxAttempts == 10
\* change_video: rotation_minutes * 60.
SecondsPerMinute == 60
\* Seconds that pass in one step of the clock.
ClockSteps == {30}

VARIABLES
    \* ---- Detector (pirdetect.py) ----
    callbacks,      \* Detector.callbacks: the subscribed handlers, in order
    curr_state,     \* Detector.curr_state
    prev_state,     \* Detector.prev_state
    dpc,            \* position of the thread in the Detector's API
    idx,            \* trigger_callbacks: index of the callback the for loop is at
    sub_last,       \* the last subscribe() call: its number, argument and error
    gpio_released,  \* number of Detector.cleanup() calls
    \* ---- observations of the Detector ----
    samples,        \* outcome of every GPIO.input so far, oldest first
    notified,       \* argument of every trigger_callbacks call so far
    calls,          \* every callback invocation so far: [h, state]
    outcome,        \* how the last callback invocation ended
    \* ---- the scare program ----
    variant,        \* which script runs: "simple", "recording", "rotating"
    themes,         \* config['themes']['available'], as the set of its elements
    ppc,            \* position in main()/run()
    cpc,            \* position in on_motion / change_video
    current_prefix, \* AdvancedScareSystem.current_prefix (video_name elsewhere)
    new_prefix,     \* AdvancedScareSystem.new_prefix
    scare_file,     \* AdvancedScareSystem.scare_file
    start_time,     \* AdvancedScareSystem.start_time
    rotation_minutes, \* AdvancedScareSystem.rotation_minutes
    attempts,       \* change_video: local attempts
    now,            \* the wall clock, time.time()
    sub_record,     \* the raspivid child of the cycle
    sub_video,      \* the scare-video player child of the cycle
    sub_playback,   \* the recording-playback player child of the cycle
    recording_exists, \* Path(recording_file).exists()
    old_records,    \* raspivid children of earlier cycles that still run
    video_cfg,      \* config['video'] holds the keys get_video_command reads
    fbi_shown,      \* theme whose start image show_image displayed last
    fbi_starts,     \* number of show_image calls
    fbi_killed,     \* number of "killall fbi" the program's cleanup ran
    exit_code,      \* exit status of the process, -1 while it runs
    obs,            \* observations of the current/last scare cycle
    cv,             \* observations of the current/last change_video call
    \* ---- the program's environment ----
    argv,           \* sys.argv[1:], the command line after the script name
    pin,            \* the level of the PIR sensor's output pin
    interrupted,    \* the operator's interrupt (SIGINT) has been delivered
    host            \* what the program finds on the machine: config.yaml, the
                    \* theme's media files, the GPIO, the recordings directory

detVars  == <<callbacks, curr_state, prev_state, dpc, idx, sub_last, gpio_released>>
histVars == <<samples, notified, calls, outcome>>
cfgVars  == <<variant, themes, rotation_minutes, video_cfg>>
rotVars  == <<current_prefix, new_prefix, scare_file, start_time, attempts>>
procVars == <<sub_record, sub_video, sub_playback, recording_exists, old_records>>
progVars == <<ppc, cpc, now, fbi_shown, fbi_starts, fbi_killed, exit_code, obs, cv>>
envVars  == <<argv, pin, interrupted, host>>
vars == <<detVars, histVars, cfgVars, rotVars, procVars, progVars, envVars>>

(***************************************************************************)
(* Values.                                                                 *)
(***************************************************************************)
\* What GPIO.input does at one read: a level, or an exception.
SensorReads == {"active", "inactive", "fail"}

\* What a client passes to subscribe(): callable or not, and whether the
\* object carries __name__ (functions and bound methods do, functools.partial
\* objects and instances with __call__ do not).
ClientHandlers ==
    [kind : {"client"}, callable : BOOLEAN, has_name : BOOLEAN]

\* The bound method self.on_motion the programs subscribe.
OnMotionHandler == [kind |-> "on_motion", callable |-> TRUE, has_name |-> TRUE]

ThemeNames == {"Male", "Female", "Child"}
NoTheme == ""

\* A command-line argument read as text is the sequence of its characters.
\* str.isdigit() accepts the decimal digits and also digit characters such
\* as the superscript two, which int() rejects with ValueError.
DecimalDigits == {"0", "1", "2", "3", "4", "5", "6", "7", "8", "9"}
DigitChars == DecimalDigits \cup {"superscript_2"}

DigitValue(c) ==
    CASE c = "0" -> 0 [] c = "1" -> 1 [] c = "2" -> 2 [] c = "3" -> 3
      [] c = "4" -> 4 [] c = "5" -> 5 [] c = "6" -> 6 [] c = "7" -> 7
      [] c = "8" -> 8 [] c = "9" -> 9

\* str.isdigit(): not empty and every character a digit.
IsDigit(text) == text # <<>> /\ \A i \in 1..Len(text) : text[i] \in DigitChars

\* int(text) raises ValueError unless the text is a decimal numeral.
IntRaises(text) == \E i \in 1..Len(text) : text[i] \notin DecimalDigits

\* int(text) of a decimal numeral.
RECURSIVE IntOf(_)
IntOf(text) ==
    IF text = <<>> THEN 0
    ELSE IntOf(SubSeq(text, 1, Len(text) - 1)) * 10 + DigitValue(text[Len(text)])

\* The sensor's level as GPIO.input returns it.
PinRead == IF pin THEN "active" ELSE "inactive"

\* f"{media_dir}/{theme}{video_suffix}"
VideoPathOfMale(theme) == <<"media_dir", "Male", "video_suffix">>

VideoPath(theme) == <<"media_dir", theme, "video_suffix">>
NoPath == <<>>

\* No subscribe() call yet.
NoSubscribe ==
    [n |-> 0, arg |-> [kind |-> "none", callable |-> FALSE, has_name |-> FALSE],
     error |-> "none"]

\* Observations of a scare cycle, reset when on_motion(True) starts one:
\* the cycles so far, the Popen calls of the cycle by command, how on_motion
\* ended, whether the skip-playback warning was logged, whether the
\* sensor's pin changed while the cycle ran, the change_video calls of the
\* cycle, and whether on_motion got past the join of the recording.
NoCycle ==
    [cycles |-> 0, rec_launches |-> 0, video_launches |-> 0,
     playback_launches |-> 0, rec_failed |-> FALSE, result |-> "none",
     skip_warning |-> FALSE, pin_moved |-> FALSE, checks |-> 0,
     joined |-> FALSE]

\* Observations of a change_video call: the fields and the clock when it was
\* entered, the elapsed time it computed, its random draws, how it ended.
NoChangeVideo ==
    [result |-> "none", elapsed |-> 0, draws |-> 0,
     old_prefix |-> NoTheme, old_new_prefix |-> NoTheme, old_file |-> NoPath,
     old_start |-> 0, old_starts |-> 0]

(***************************************************************************)
(* pirdetect.py: Detector                                                  *)
(***************************************************************************)
\* Detector.__init__: no callbacks, both states False.
DetectorConstructed ==
    /\ callbacks = <<>>
    /\ curr_state = FALSE
    /\ prev_state = FALSE
    /\ idx = 0
    /\ sub_last = NoSubscribe
    /\ gpio_released = 0

\* Detector.read with GPIO.input giving s: prev_state takes curr_state first;
\* an exception of GPIO.input leaves curr_state as it was (read returns False,
\* which start ignores).
ReadNoShift(s) ==
    /\ prev_state' = prev_state
    /\ curr_state' = IF s = "fail" THEN curr_state ELSE (s = "active")

Read(s) ==
    /\ prev_state' = curr_state
    /\ curr_state' = IF s = "fail" THEN curr_state ELSE (s = "active")

\* Detector.subscribe(h): ValueError for a non-callable; otherwise append,
\* then the debug line formats h.__name__, which raises AttributeError for a
\* callable without that attribute (the handler is already in the list).
SubscribeAnything(h) ==
    /\ callbacks' = Append(callbacks, h)
    /\ sub_last' = [n |-> sub_last.n + 1, arg |-> h,
                    error |-> IF h.has_name THEN "none" ELSE "AttributeError"]

Subscribe(h) ==
    IF ~h.callable
    THEN /\ sub_last' = [n |-> sub_last.n + 1, arg |-> h, error |-> "ValueError"]
         /\ callbacks' = callbacks
    ELSE /\ callbacks' = Append(callbacks, h)
         /\ sub_last' = [n |-> sub_last.n + 1, arg |-> h,
                         error |-> IF h.has_name THEN "none" ELSE "AttributeError"]

\* Detector.cleanup: GPIO.cleanup(), stty sane.
DetectorCleanup == gpio_released' = gpio_released + 1

\* trigger_callbacks: the for loop moves to the next callback, or ends and
\* start goes on to time.sleep and the next iteration.
NextCallback ==
    IF idx < Len(callbacks)
    THEN /\ idx' = idx + 1
         /\ dpc' = "dispatch"
    ELSE /\ idx' = 0
         /\ dpc' = "loop"

\* Detector.start, one iteration of "while True": read, compare, and on a
\* change call trigger_callbacks(curr_state), whose for loop starts at the
\* first callback.
PollStep(s) ==
    /\ dpc = "loop"
    /\ Read(s)
    /\ IF curr_state' # prev_state'
       THEN /\ notified' = Append(notified, curr_state')
            /\ IF callbacks = <<>>
               THEN /\ dpc' = "loop"
                    /\ idx' = 0
               ELSE /\ dpc' = "dispatch"
                    /\ idx' = 1
       ELSE /\ notified' = notified
            /\ dpc' = "loop"
            /\ idx' = 0
    /\ UNCHANGED <<callbacks, sub_last, gpio_released>>

\* Detector.start up to the loop: the priming read and print_state.
StartStep(s) ==
    /\ dpc = "constructed"
    /\ Read(s)
    /\ dpc' = "loop"
    /\ UNCHANGED <<callbacks, idx, sub_last, gpio_released, notified>>

\* trigger_callbacks calling a client callback, which returns or raises an
\* Exception. The except clause logs callback.__name__: for a callback
\* without that attribute the log line itself raises AttributeError, which
\* leaves trigger_callbacks and reaches start's "except Exception": cleanup,
\* re-raise.
AfterCallback(h, out) ==
    IF out = "raise" /\ ~h.has_name
    THEN /\ dpc' = "crashed"
         /\ idx' = idx
         /\ DetectorCleanup
    ELSE /\ NextCallback
         /\ gpio_released' = gpio_released

InvokeClient(out) ==
    /\ dpc = "dispatch"
    /\ callbacks[idx].kind = "client"
    /\ calls' = Append(calls, [h |-> idx, state |-> curr_state])
    /\ outcome' = out
    /\ AfterCallback(callbacks[idx], out)
    /\ UNCHANGED <<callbacks, curr_state, prev_state, sub_last, samples, notified>>

\* KeyboardInterrupt while start runs (in the sleep, the read or a callback):
\* "except KeyboardInterrupt" logs, cleans up and start returns.
StartInterrupted ==
    /\ dpc \in {"loop", "dispatch"}
    /\ dpc' = "stopped"
    /\ DetectorCleanup
    /\ UNCHANGED <<callbacks, curr_state, prev_state, idx, sub_last>>

(***************************************************************************)
(* DetectorSpec: a client constructs a Detector, subscribes what it likes  *)
(* (going on after an error of subscribe), and calls start.                *)
(***************************************************************************)
ProgramIdle ==
    /\ variant = "none"
    /\ themes = {}
    /\ rotation_minutes = 0
    /\ current_prefix = NoTheme
    /\ new_prefix = NoTheme
    /\ scare_file = NoPath
    /\ start_time = 0
    /\ attempts = 0
    /\ sub_record = "none"
    /\ sub_video = "none"
    /\ sub_playback = "none"
    /\ recording_exists = FALSE
    /\ old_records = 0
    /\ video_cfg = TRUE
    /\ ppc = "none"
    /\ cpc = "idle"
    /\ now = 0
    /\ fbi_shown = NoTheme
    /\ fbi_starts = 0
    /\ fbi_killed = 0
    /\ exit_code = -1
    /\ obs = NoCycle
    /\ cv = NoChangeVideo
    /\ argv = <<>>
    /\ pin = FALSE
    /\ interrupted = FALSE
    /\ host = [config |-> "missing", media |-> TRUE, gpio |-> TRUE,
               recordings_dir |-> TRUE]

NoHistory ==
    /\ samples = <<>>
    /\ notified = <<>>
    /\ calls = <<>>
    /\ outcome = "none"

DetectorInit ==
    /\ DetectorConstructed
    /\ dpc = "constructed"
    /\ NoHistory
    /\ ProgramIdle

programVars == <<cfgVars, rotVars, procVars, progVars, envVars>>

ClientSubscribe ==
    /\ dpc = "constructed"
    /\ sub_last.n < MaxSubs
    /\ \E h \in ClientHandlers : Subscribe(h)
    /\ UNCHANGED <<curr_state, prev_state, dpc, idx, gpio_released>>
    /\ UNCHANGED <<histVars, programVars>>

ClientStart ==
    /\ \E s \in SensorReads :
          /\ StartStep(s)
          /\ samples' = Append(samples, s)
    /\ UNCHANGED <<calls, outcome, programVars>>

ClientPoll ==
    /\ Len(samples) < MaxSamples
    /\ \E s \in SensorReads :
          /\ PollStep(s)
          /\ samples' = Append(samples, s)
    /\ UNCHANGED <<calls, outcome, programVars>>

ClientCallback ==
    /\ \E out \in {"return", "raise"} : InvokeClient(out)
    /\ UNCHANGED programVars

ClientInterrupt ==
    /\ StartInterrupted
    /\ UNCHANGED <<histVars, programVars>>

DetectorNext ==
    \/ ClientSubscribe
    \/ ClientStart
    \/ ClientPoll
    \/ ClientCallback
    \/ ClientInterrupt

DetectorSpec == DetectorInit /\ [][DetectorNext]_vars

(***************************************************************************)
(* scare.py, scare2.py, scarerandom.py: the scare programs                 *)
(***************************************************************************)
Variants == {"simple", "recording", "rotating"}

\* scare2.py and scarerandom.py record the reaction; scare.py does not.
RecordingVariants == {"recording", "rotating"}

\* get_default_config: 'available': ['Male', 'Female', 'Child'].
DefaultThemes == {"Male", "Female", "Child"}

\* The theme lists a config.yaml may hold, as sets of their elements.
ThemeConfigs == {{"Male"}, {"Male", "Female"}, DefaultThemes}

\* Texts given as the Minutes argument of scarerandom.py: "1", "0", "00",
\* "abc", "-1", a superscript two, and the empty text.
MinuteArgs ==
    {<<"1">>, <<"0">>, <<"0", "0">>, <<"a", "b", "c">>, <<"-", "1">>,
     <<"superscript_2">>, <<>>}

\* The command lines tried: scarerandom.py [VideoName] [Minutes], the other
\* scripts [VideoName]; also one argument too few.
CommandLines(v) ==
    IF v = "rotating"
    THEN {<<theme, <<"1">>>> : theme \in ThemeNames}
            \cup {<<"Male", minutes>> : minutes \in MinuteArgs}
            \cup {<<"Male">>}
    ELSE {<<theme>> : theme \in ThemeNames} \cup {<<>>}

\* on_motion: "if not curr_state: return".
StartsCycleAlways(state) == TRUE

StartsCycle(state) == state

\* change_video: "if elapsed_time > (self.rotation_minutes * 60)".
RotationDueNoSeconds(elapsed) == elapsed > rotation_minutes

RotationDue(elapsed) == elapsed > rotation_minutes * SecondsPerMinute

\* change_video: "while self.new_prefix == self.current_prefix and attempts < 10".
DrawOnce == attempts < 1

DrawOneMore == new_prefix = current_prefix /\ attempts <= MaxAttempts

DrawAgain == new_prefix = current_prefix /\ attempts < MaxAttempts

\* on_motion: "if sub_record.poll() is None: sub_record.wait()" lets the
\* thread go on only once the recording process has exited.
RecordNotJoined == TRUE

RecordJoinHangs == FALSE

RecordJoined == sub_record # "running"

\* on_motion: "if Path(recording_file).exists()".
PlayBackAlways == TRUE

PlayBack == recording_exists

\* validate_theme: "if theme not in available: ... return False".
ValidateThemeAny(theme) == TRUE

ValidateTheme(theme) == theme \in themes

\* on_motion is called in the detector's thread: trigger_callbacks waits in
\* "callback(state)" until the scare cycle is over.
CallReturnsAtOnce == NextCallback

CallBlocks == UNCHANGED <<dpc, idx>>

\* Python's exception matching: "except Exception" takes the subclasses of
\* Exception; KeyboardInterrupt and SystemExit derive from BaseException.
CatchesBroadly(clause, exc) == clause = exc \/ clause = "Exception"

Catches(clause, exc) ==
    \/ clause = exc
    \/ clause = "Exception" /\ exc \notin {"KeyboardInterrupt", "SystemExit"}

\* The except clauses around the thread's position in the detection loop,
\* innermost first, by the function that holds them: subprocess_wait around
\* its poll loop (scare2.py, scarerandom.py), on_motion, trigger_callbacks,
\* Detector.start.
ExceptClauses ==
    (IF cpc \in {"wait_video", "wait_playback"} /\ variant \in RecordingVariants
     THEN <<[in |-> "subprocess_wait", clause |-> "Exception"]>> ELSE <<>>)
    \o (IF cpc # "idle"
        THEN <<[in |-> "on_motion", clause |-> "Exception"]>> ELSE <<>>)
    \o (IF dpc = "dispatch"
        THEN <<[in |-> "trigger_callbacks", clause |-> "Exception"]>> ELSE <<>>)
    \o <<[in |-> "start", clause |-> "KeyboardInterrupt"]>>

\* The function whose except clause takes the exception: the innermost one
\* that matches.
HandledIn(exc) ==
    LET first == CHOOSE i \in 1..Len(ExceptClauses) :
                    /\ Catches(ExceptClauses[i].clause, exc)
                    /\ \A j \in 1..(i - 1) : ~Catches(ExceptClauses[j].clause, exc)
    IN  ExceptClauses[first].in

\* show_image(theme): fbi is started on the theme's start image.
ShowNothing(theme) == UNCHANGED <<fbi_shown, fbi_starts>>

ShowImage(theme) ==
    /\ fbi_shown' = theme
    /\ fbi_starts' = fbi_starts + 1

\* on_motion returns to trigger_callbacks, o being the cycle's observations.
OnMotionReturnsViaRotation(o) ==
    IF variant = "rotating" /\ o.result = "error"
    THEN /\ cpc' = "change_video"
         /\ obs' = o
         /\ UNCHANGED <<dpc, idx>>
    ELSE /\ cpc' = "idle"
         /\ obs' = o
         /\ NextCallback

OnMotionReturns(o) ==
    /\ cpc' = "idle"
    /\ obs' = o
    /\ NextCallback

\* The process as main() begins: nothing constructed, nothing launched.
\* What a run may find on the machine. config: config.yaml is absent,
\* present and parsed, or present and rejected by the YAML parser; media:
\* the theme's scare video and start image both exist; gpio: the Detector
\* can set its pin up; recordings_dir: the recordings directory can be made.
Hosts ==
    [config : {"missing", "present", "malformed"}, media : BOOLEAN,
     gpio : BOOLEAN, recordings_dir : BOOLEAN]

\* load_config: FileNotFoundError returns get_default_config();
\* yaml.YAMLError ends the process with sys.exit(1).
LoadConfigExits ==
    host.config = "malformed"

\* The configuration in use has a 'themes' section. get_default_config of
\* scare.py returns none; those of scare2.py and scarerandom.py do.
ThemesSection ==
    host.config = "present" \/ variant # "simple"

\* scare.py validate_media_files: reads config['themes'] (a KeyError
\* without the section, which main's "except Exception" turns into
\* sys.exit(1)), then False when the video or the image is missing, upon
\* which run calls sys.exit(1). scare2.py and scarerandom.py have no such
\* test of the files.
ValidateMediaFiles ==
    variant = "simple" => (ThemesSection /\ host.media)

\* ensure_recordings_dir (scare2.py, scarerandom.py): mkdir, an exception is
\* logged and raised again.
EnsureRecordingsDir ==
    variant \in RecordingVariants => host.recordings_dir

\* themes and video_cfg are the configuration load_config will return: the
\* defaults when config.yaml is missing, the file's content when it parses.
\* scarerandom.py never tests the media files, scare.py never makes the
\* recordings directory: the model leaves them present there.
ProgramInit ==
    /\ variant \in Variants
    /\ themes \in (IF variant = "rotating" THEN ThemeConfigs ELSE {DefaultThemes})
    /\ rotation_minutes = 0
    /\ current_prefix = NoTheme
    /\ new_prefix = NoTheme
    /\ scare_file = NoPath
    /\ start_time = 0
    /\ attempts = 0
    /\ sub_record = "none"
    /\ sub_video = "none"
    /\ sub_playback = "none"
    /\ recording_exists = FALSE
    /\ old_records = 0
    /\ video_cfg \in BOOLEAN
    /\ ppc = "main"
    /\ cpc = "idle"
    /\ now = 0
    /\ fbi_shown = NoTheme
    /\ fbi_starts = 0
    /\ fbi_killed = 0
    /\ exit_code = -1
    /\ obs = NoCycle
    /\ cv = NoChangeVideo
    /\ argv \in CommandLines(variant)
    /\ pin = FALSE
    /\ interrupted = FALSE
    /\ host \in Hosts
    /\ host.config # "present" => (themes = DefaultThemes /\ video_cfg)
    /\ variant = "rotating" => host.media
    /\ variant = "simple" => host.recordings_dir
    /\ DetectorConstructed
    /\ dpc = "none"
    /\ NoHistory

\* run() up to the detection loop: (scarerandom) validate_theme or
\* sys.exit(1); (scare) validate_media_files or sys.exit(1); set the theme
\* fields; (scare2, scarerandom) ensure_recordings_dir, which may raise;
\* show_image; Detector(...), whose GPIO setup may raise; detector.subscribe(self.on_motion). An exception of
\* Detector(...) is raised before run's try: it leaves run and main's
\* "except Exception" ends the process with sys.exit(1).
Run(theme, minutes, gpio_ok) ==
    /\ ppc = "main"
    /\ IF (variant = "rotating" /\ ~ValidateTheme(theme)) \/ ~ValidateMediaFiles
       THEN /\ ppc' = "exited"
            /\ exit_code' = 1
            /\ UNCHANGED <<detVars, rotVars, rotation_minutes, fbi_shown, fbi_starts>>
       ELSE /\ current_prefix' = theme
            /\ new_prefix' = IF variant = "rotating" THEN theme ELSE NoTheme
            /\ rotation_minutes' = IF variant = "rotating" THEN minutes ELSE 0
            /\ scare_file' = IF variant = "rotating" THEN VideoPath(theme) ELSE NoPath
            /\ IF ~EnsureRecordingsDir
               THEN /\ ppc' = "exited"
                    /\ exit_code' = 1
                    /\ UNCHANGED <<callbacks, sub_last, dpc, fbi_shown, fbi_starts>>
               ELSE /\ ShowImage(theme)
                    /\ IF gpio_ok
                       THEN /\ Subscribe(OnMotionHandler)
                            /\ dpc' = "constructed"
                            /\ ppc' = "detecting"
                            /\ UNCHANGED exit_code
                       ELSE /\ ppc' = "exited"
                            /\ exit_code' = 1
                            /\ UNCHANGED <<callbacks, sub_last, dpc>>
            /\ UNCHANGED <<curr_state, prev_state, idx, gpio_released,
                           start_time, attempts>>
    /\ UNCHANGED <<histVars, variant, themes, video_cfg, procVars, cpc, now, fbi_killed, obs, cv>>
    /\ UNCHANGED envVars

\* main(): too few arguments exit with 1; scarerandom.py also exits with 1
\* on a Minutes text that fails isdigit(), that int() rejects (ValueError,
\* caught by main) or whose value is <= 0; otherwise the system object is
\* made, its constructor ending the process with 1 on a config.yaml the
\* parser rejects, and run() is called.
MainRejectsNonDigits ==
    IF variant = "rotating"
    THEN \/ Len(argv) < 2
         \/ ~IsDigit(argv[2])
         \/ IntRaises(argv[2])
    ELSE Len(argv) < 1

MainRejects ==
    IF variant = "rotating"
    THEN \/ Len(argv) < 2
         \/ ~IsDigit(argv[2])
         \/ IntRaises(argv[2])
         \/ IntOf(argv[2]) <= 0
    ELSE Len(argv) < 1

Main ==
    /\ ppc = "main"
    /\ IF MainRejects \/ LoadConfigExits
       THEN /\ ppc' = "exited"
            /\ exit_code' = 1
            /\ UNCHANGED <<detVars, histVars, cfgVars, rotVars, procVars, envVars>>
            /\ UNCHANGED <<cpc, now, fbi_shown, fbi_starts, fbi_killed, obs, cv>>
       ELSE Run(argv[1], IF variant = "rotating" THEN IntOf(argv[2]) ELSE 0, host.gpio)

\* run(): self.detector.start(...), up to the loop.
ProgramStart ==
    /\ ppc = "detecting"
    /\ \E s \in {PinRead, "fail"} : StartStep(s)
    /\ UNCHANGED <<samples, calls, outcome, programVars>>

\* One iteration of the polling loop.
ProgramPoll ==
    /\ ppc = "detecting"
    /\ \E s \in {PinRead, "fail"} : PollStep(s)
    /\ Len(notified') <= MaxEdges
    /\ UNCHANGED <<samples, calls, outcome, programVars>>

\* time.time() moves on. Only scarerandom.py reads the clock.
Tick ==
    /\ ppc = "detecting"
    /\ variant = "rotating"
    /\ \E d \in ClockSteps :
          /\ now + d <= MaxTime
          /\ now' = now + d
    /\ UNCHANGED <<detVars, histVars, cfgVars, envVars, rotVars, procVars>>
    /\ UNCHANGED <<ppc, cpc, fbi_shown, fbi_starts, fbi_killed, exit_code, obs, cv>>

\* trigger_callbacks calls on_motion(curr_state): a falling edge returns at
\* once; a rising edge starts a scare cycle (scare.py goes to the video,
\* the others first build the recording path and command).
InvokeOnMotion ==
    /\ dpc = "dispatch"
    /\ callbacks[idx].kind = "on_motion"
    /\ cpc = "idle"
    /\ calls' = Append(calls, [h |-> idx, state |-> curr_state])
    /\ IF StartsCycle(curr_state)
       THEN /\ cpc' = IF variant = "simple" THEN "launch_video" ELSE "launch_record"
            /\ obs' = [NoCycle EXCEPT !.cycles = obs.cycles + 1, !.result = "running"]
            /\ sub_record' = "none"
            /\ sub_video' = "none"
            /\ sub_playback' = "none"
            /\ recording_exists' = FALSE
            /\ old_records' = old_records + (IF sub_record = "running" THEN 1 ELSE 0)
            /\ CallBlocks
       ELSE /\ NextCallback
            /\ UNCHANGED <<cpc, obs, procVars>>
    /\ UNCHANGED <<callbacks, curr_state, prev_state, sub_last, gpio_released>>
    /\ UNCHANGED <<samples, notified, outcome, cfgVars, envVars, rotVars>>
    /\ UNCHANGED <<ppc, now, fbi_shown, fbi_starts, fbi_killed, exit_code, cv>>

\* on_motion: sub_record = sp.Popen(record_cmd). A failure to launch raises
\* inside on_motion's try: "except Exception" logs it and on_motion returns.
LaunchRecord ==
    /\ cpc = "launch_record"
    /\ \E ok \in BOOLEAN :
          IF ok
          THEN /\ sub_record' = "running"
               /\ cpc' = "launch_video"
               /\ obs' = [obs EXCEPT !.rec_launches = @ + 1]
               /\ UNCHANGED <<dpc, idx>>
          ELSE /\ sub_record' = "failed"
               /\ OnMotionReturns([obs EXCEPT !.rec_launches = @ + 1,
                                              !.rec_failed = TRUE,
                                              !.result = "error"])
    /\ UNCHANGED <<callbacks, curr_state, prev_state, sub_last, gpio_released>>
    /\ UNCHANGED <<histVars, cfgVars, envVars, rotVars, sub_video, sub_playback, recording_exists, old_records>>
    /\ UNCHANGED <<ppc, now, fbi_shown, fbi_starts, fbi_killed, exit_code, cv>>

\* The scare video is launched. get_video_command is called in on_motion's
\* try: with a key of config['video'] missing it raises KeyError and the
\* cycle ends in "except Exception". Then scare.py calls sp.Popen in
\* on_motion's try (a failure ends the cycle in "except Exception"); the
\* others call subprocess_wait, which catches the failure itself and
\* returns False.
LaunchVideo ==
    /\ cpc = "launch_video"
    /\ IF ~video_cfg
       THEN /\ sub_video' = sub_video
            /\ OnMotionReturns([obs EXCEPT !.result = "error"])
       ELSE \E ok \in BOOLEAN :
          IF ok
          THEN /\ sub_video' = "running"
               /\ cpc' = "wait_video"
               /\ obs' = [obs EXCEPT !.video_launches = @ + 1]
               /\ UNCHANGED <<dpc, idx>>
          ELSE /\ sub_video' = "failed"
               /\ IF variant = "simple"
                  THEN OnMotionReturns([obs EXCEPT !.video_launches = @ + 1,
                                                   !.result = "error"])
                  ELSE /\ cpc' = "join_record"
                       /\ obs' = [obs EXCEPT !.video_launches = @ + 1]
                       /\ UNCHANGED <<dpc, idx>>
    /\ UNCHANGED <<callbacks, curr_state, prev_state, sub_last, gpio_released>>
    /\ UNCHANGED <<histVars, cfgVars, envVars, rotVars, sub_record, sub_playback, recording_exists, old_records>>
    /\ UNCHANGED <<ppc, now, fbi_shown, fbi_starts, fbi_killed, exit_code, cv>>

\* "while sub.poll() is None: time.sleep(0.1)" ends: the player has exited.
VideoExit ==
    /\ cpc = "wait_video"
    /\ sub_video = "running"
    /\ sub_video' = "exited"
    /\ IF variant = "simple"
       THEN OnMotionReturns([obs EXCEPT !.result = "completed"])
       ELSE /\ cpc' = "join_record"
            /\ UNCHANGED <<obs, dpc, idx>>
    /\ UNCHANGED <<callbacks, curr_state, prev_state, sub_last, gpio_released>>
    /\ UNCHANGED <<histVars, cfgVars, envVars, rotVars, sub_record, sub_playback, recording_exists, old_records>>
    /\ UNCHANGED <<ppc, now, fbi_shown, fbi_starts, fbi_killed, exit_code, cv>>

\* raspivid creates the recording file while it runs (or never does).
RecordWrites ==
    /\ sub_record = "running"
    /\ ~recording_exists
    /\ recording_exists' = TRUE
    /\ UNCHANGED <<detVars, histVars, cfgVars, envVars, rotVars, progVars>>
    /\ UNCHANGED <<sub_record, sub_video, sub_playback, old_records>>

\* raspivid exits, at the end of its fixed duration or earlier.
RecordExit ==
    /\ sub_record = "running"
    /\ sub_record' = "exited"
    /\ UNCHANGED <<detVars, histVars, cfgVars, envVars, rotVars, progVars>>
    /\ UNCHANGED <<sub_video, sub_playback, recording_exists, old_records>>

\* A raspivid left running by an earlier cycle exits.
OldRecordExit ==
    /\ old_records > 0
    /\ old_records' = old_records - 1
    /\ UNCHANGED <<detVars, histVars, cfgVars, envVars, rotVars, progVars>>
    /\ UNCHANGED <<sub_record, sub_video, sub_playback, recording_exists>>

\* on_motion after the last playback step, "Scare sequence completed":
\* scare2.py returns; scarerandom.py goes on to self.change_video().
SequenceCompleted(o) ==
    IF variant = "rotating"
    THEN /\ cpc' = "change_video"
         /\ obs' = o
         /\ UNCHANGED <<dpc, idx>>
    ELSE OnMotionReturns([o EXCEPT !.result = "completed"])

\* on_motion: the recording is joined, then played back if its file exists,
\* else "Recording file not found, skipping playback" is logged.
JoinRecord ==
    /\ cpc = "join_record"
    /\ RecordJoined
    /\ IF PlayBack
       THEN /\ cpc' = "launch_playback"
            /\ obs' = [obs EXCEPT !.joined = TRUE]
            /\ UNCHANGED <<dpc, idx>>
       ELSE SequenceCompleted([obs EXCEPT !.skip_warning = TRUE, !.joined = TRUE])
    /\ UNCHANGED <<callbacks, curr_state, prev_state, sub_last, gpio_released>>
    /\ UNCHANGED <<histVars, cfgVars, envVars, rotVars, procVars>>
    /\ UNCHANGED <<ppc, now, fbi_shown, fbi_starts, fbi_killed, exit_code, cv>>

\* on_motion: self.subprocess_wait(playback_cmd), the launch; a failure is
\* caught in subprocess_wait.
LaunchPlayback ==
    /\ cpc = "launch_playback"
    /\ \E ok \in BOOLEAN :
          IF ok
          THEN /\ sub_playback' = "running"
               /\ cpc' = "wait_playback"
               /\ obs' = [obs EXCEPT !.playback_launches = @ + 1]
               /\ UNCHANGED <<dpc, idx>>
          ELSE /\ sub_playback' = "failed"
               /\ SequenceCompleted([obs EXCEPT !.playback_launches = @ + 1])
    /\ UNCHANGED <<callbacks, curr_state, prev_state, sub_last, gpio_released>>
    /\ UNCHANGED <<histVars, cfgVars, envVars, rotVars, sub_record, sub_video, recording_exists, old_records>>
    /\ UNCHANGED <<ppc, now, fbi_shown, fbi_starts, fbi_killed, exit_code, cv>>

\* subprocess_wait(playback_cmd): the player has exited.
PlaybackExit ==
    /\ cpc = "wait_playback"
    /\ sub_playback = "running"
    /\ sub_playback' = "exited"
    /\ SequenceCompleted(obs)
    /\ UNCHANGED <<callbacks, curr_state, prev_state, sub_last, gpio_released>>
    /\ UNCHANGED <<histVars, cfgVars, envVars, rotVars, sub_record, sub_video, recording_exists, old_records>>
    /\ UNCHANGED <<ppc, now, fbi_shown, fbi_starts, fbi_killed, exit_code, cv>>

\* change_video, entry: the elapsed time is compared with the interval; when
\* no rotation is due the call returns, and on_motion with it.
ChangeVideoCheck ==
    /\ cpc = "change_video"
    /\ LET elapsed == now - start_time
           entry == [result |-> "not_due", elapsed |-> elapsed, draws |-> 0,
                     old_prefix |-> current_prefix, old_new_prefix |-> new_prefix,
                     old_file |-> scare_file, old_start |-> start_time,
                     old_starts |-> fbi_starts]
       IN  IF RotationDue(elapsed)
           THEN /\ attempts' = 0
                /\ cpc' = "draw"
                /\ cv' = [entry EXCEPT !.result = "drawing"]
                /\ obs' = [obs EXCEPT !.checks = @ + 1]
                /\ UNCHANGED <<dpc, idx>>
           ELSE /\ attempts' = attempts
                /\ cv' = entry
                /\ OnMotionReturns([obs EXCEPT !.result = "completed",
                                                !.checks = @ + 1])
    /\ UNCHANGED <<callbacks, curr_state, prev_state, sub_last, gpio_released>>
    /\ UNCHANGED <<histVars, cfgVars, envVars, procVars>>
    /\ UNCHANGED <<current_prefix, new_prefix, scare_file, start_time>>
    /\ UNCHANGED <<ppc, now, fbi_shown, fbi_starts, fbi_killed, exit_code>>

\* change_video, one iteration of the while loop: a random.choice.
ChangeVideoDraw ==
    /\ cpc = "draw"
    /\ DrawAgain
    /\ \E t \in themes : new_prefix' = t
    /\ attempts' = attempts + 1
    /\ cv' = [cv EXCEPT !.draws = @ + 1]
    /\ UNCHANGED <<detVars, histVars, cfgVars, envVars, procVars>>
    /\ UNCHANGED <<current_prefix, scare_file, start_time>>
    /\ UNCHANGED <<ppc, cpc, now, fbi_shown, fbi_starts, fbi_killed, exit_code, obs>>

\* change_video after the loop: "if attempts >= 10" warn and return; else
\* take the new theme, its scare file, restart the interval, show its image.
ChangeVideoDecide ==
    /\ cpc = "draw"
    /\ ~DrawAgain
    /\ IF attempts >= MaxAttempts
       THEN /\ cv' = [cv EXCEPT !.result = "skipped"]
            /\ UNCHANGED <<current_prefix, scare_file, start_time, fbi_shown, fbi_starts>>
       ELSE /\ current_prefix' = new_prefix
            /\ scare_file' = VideoPath(new_prefix)
            /\ start_time' = now
            /\ ShowImage(new_prefix)
            /\ cv' = [cv EXCEPT !.result = "rotated"]
    /\ OnMotionReturns([obs EXCEPT !.result = "completed"])
    /\ UNCHANGED <<callbacks, curr_state, prev_state, sub_last, gpio_released>>
    /\ UNCHANGED <<histVars, cfgVars, envVars, procVars, new_prefix, attempts>>
    /\ UNCHANGED <<ppc, now, fbi_killed, exit_code>>

\* KeyboardInterrupt in the detection loop is raised where the thread is and
\* goes to the innermost except clause that matches. Detector.start's
\* clause cleans up and start returns, a cycle in progress being abandoned
\* where it is (its child processes are left as they are). A clause of
\* subprocess_wait, on_motion or trigger_callbacks that took it would log
\* it and go on: the wait returns False, on_motion returns, the next
\* callback is called.
ProgramInterrupt ==
    /\ ppc = "detecting"
    /\ dpc \in {"loop", "dispatch"}
    /\ ~interrupted
    /\ interrupted' = TRUE
    /\ CASE HandledIn("KeyboardInterrupt") = "start" ->
                /\ StartInterrupted
                /\ cpc' = IF cpc = "idle" THEN "idle" ELSE "abandoned"
                /\ UNCHANGED obs
         [] HandledIn("KeyboardInterrupt") = "subprocess_wait" ->
                /\ IF cpc = "wait_video"
                   THEN /\ cpc' = "join_record"
                        /\ UNCHANGED <<obs, dpc, idx>>
                   ELSE SequenceCompleted(obs)
                /\ UNCHANGED <<callbacks, curr_state, prev_state, sub_last, gpio_released>>
         [] HandledIn("KeyboardInterrupt") = "on_motion" ->
                /\ OnMotionReturns([obs EXCEPT !.result = "error"])
                /\ UNCHANGED <<callbacks, curr_state, prev_state, sub_last, gpio_released>>
         [] HandledIn("KeyboardInterrupt") = "trigger_callbacks" ->
                /\ NextCallback
                /\ UNCHANGED <<cpc, obs>>
                /\ UNCHANGED <<callbacks, curr_state, prev_state, sub_last, gpio_released>>
    /\ UNCHANGED <<histVars, cfgVars, rotVars, procVars, argv, pin, host>>
    /\ UNCHANGED <<ppc, now, fbi_shown, fbi_starts, fbi_killed, exit_code, cv>>

\* run(): "finally: self.cleanup()" once start has returned: killall fbi,
\* detector.cleanup(); the process ends.
RunFinally ==
    /\ ppc = "detecting"
    /\ dpc = "stopped"
    /\ fbi_killed' = fbi_killed + 1
    /\ DetectorCleanup
    /\ ppc' = "exited"
    /\ exit_code' = 0
    /\ UNCHANGED <<callbacks, curr_state, prev_state, dpc, idx, sub_last>>
    /\ UNCHANGED <<histVars, cfgVars, envVars, rotVars, procVars>>
    /\ UNCHANGED <<cpc, now, fbi_shown, fbi_starts, obs, cv>>

\* The PIR sensor's output changes level, whatever the program is doing;
\* the program sees the level only when Detector.read samples it.
PinChange ==
    /\ ppc = "detecting"
    /\ dpc \in {"constructed", "loop", "dispatch"}
    /\ pin' = ~pin
    /\ obs' = IF cpc # "idle" THEN [obs EXCEPT !.pin_moved = TRUE] ELSE obs
    /\ UNCHANGED <<detVars, histVars, cfgVars, rotVars, procVars, argv, interrupted, host>>
    /\ UNCHANGED <<ppc, cpc, now, fbi_shown, fbi_starts, fbi_killed, exit_code, cv>>

Next ==
    \/ Main
    \/ PinChange
    \/ ProgramStart
    \/ ProgramPoll
    \/ Tick
    \/ InvokeOnMotion
    \/ LaunchRecord
    \/ LaunchVideo
    \/ VideoExit
    \/ RecordWrites
    \/ RecordExit
    \/ OldRecordExit
    \/ JoinRecord
    \/ LaunchPlayback
    \/ PlaybackExit
    \/ ChangeVideoCheck
    \/ ChangeVideoDraw
    \/ ChangeVideoDecide
    \/ ProgramInterrupt
    \/ RunFinally

Spec == ProgramInit /\ [][Next]_vars

\* The steps of the program's one thread, from main() to the polling loop
\* and through on_motion: the scheduler lets a runnable thread run.
ProgramStep ==
    \/ Main
    \/ ProgramStart
    \/ ProgramPoll
    \/ InvokeOnMotion
    \/ LaunchRecord
    \/ LaunchVideo
    \/ JoinRecord
    \/ LaunchPlayback
    \/ ChangeVideoCheck
    \/ ChangeVideoDraw
    \/ ChangeVideoDecide

\* A child process the thread waits for exits: omxplayer under
\* subprocess_wait's poll loop, raspivid under on_motion's wait().
ChildExit ==
    \/ VideoExit
    \/ PlaybackExit
    \/ RecordExit

\* The steps of a run nobody interrupts: Next without the interrupt and
\* without run()'s finally, which only an interrupt leads to.
FairNext ==
    \/ ProgramStep
    \/ ChildExit
    \/ PinChange
    \/ Tick
    \/ RecordWrites
    \/ OldRecordExit

\* The program started on a machine where startup succeeds: config.yaml
\* parses, the media files are there, the GPIO and the recordings
\* directory are usable.
FairInit ==
    /\ ProgramInit
    /\ host = [config |-> "present", media |-> TRUE, gpio |-> TRUE,
               recordings_dir |-> TRUE]

\* A run without interrupt in which the thread keeps running and every
\* child process waited for exits.
FairSpec ==
    /\ FairInit
    /\ [][FairNext]_vars
    /\ WF_vars(ProgramStep)
    /\ WF_vars(ChildExit)

(***************************************************************************)
(* Properties of the Detector (DetectorSpec).                              *)
(***************************************************************************)
Level(s) == (s = "active")

\* The notifications a run of successful reads s must produce: the value of
\* every read that differs from the read before it, in order.
RECURSIVE EdgesOf(_)
EdgesOf(s) ==
    IF Len(s) < 2
    THEN <<>>
    ELSE LET n == Len(s)
             before == EdgesOf(SubSeq(s, 1, n - 1))
         IN  IF s[n] # s[n - 1] THEN Append(before, Level(s[n])) ELSE before

NoFailedRead == \A i \in 1..Len(samples) : samples[i] # "fail"

\* C1: over any sequence of successful reads s0..sn of Detector.start, the
\* subscribers are notified once per index i >= 1 with s(i) # s(i-1), with
\* the value just read; the priming read s0 never notifies.
C1_EdgesMatchSamples ==
    NoFailedRead => notified = EdgesOf(samples)

C1_Witness ==
    /\ samples = <<"inactive", "inactive", "active", "active", "inactive">>
    /\ Len(callbacks) = 1
    /\ calls = <<[h |-> 1, state |-> TRUE], [h |-> 1, state |-> FALSE]>>
    /\ notified = <<TRUE, FALSE>>
    /\ dpc = "loop"

\* The invocations that Len(notified) completed dispatches to n callbacks
\* make: for every edge, callback 1..n in order, with the edge's value.
RECURSIVE ExpectedCalls(_, _)
ExpectedCalls(edges, n) ==
    IF edges = <<>>
    THEN <<>>
    ELSE LET m == Len(edges)
         IN  ExpectedCalls(SubSeq(edges, 1, m - 1), n)
               \o [k \in 1..n |-> [h |-> k, state |-> edges[m]]]

TimesCalled(k) == Cardinality({i \in 1..Len(calls) : calls[i].h = k})

\* C2: a callback that raises during the dispatch of an edge stops neither
\* the dispatch nor the polling loop: the loop is never ended by a callback's
\* error, and whenever the loop is back at its sleep every callback has been
\* invoked once for every edge so far (so a callback that raised is invoked
\* again on the next edge).
C2_HandlerErrorsContained ==
    /\ dpc # "crashed"
    /\ dpc = "loop" => \A k \in 1..Len(callbacks) : TimesCalled(k) = Len(notified)

\* C3: the subscriber list only grows at its end, and for every edge each
\* subscribed callback is invoked exactly once, one after the other in
\* subscription order.
C3_InOrderExactlyOnce ==
    /\ [](dpc \in {"loop", "crashed"} =>
            calls = ExpectedCalls(notified, Len(callbacks)))
    /\ [][/\ Len(callbacks') >= Len(callbacks)
          /\ SubSeq(callbacks', 1, Len(callbacks)) = callbacks]_vars

\* C4: subscribe with a non-callable argument raises ValueError and leaves
\* the subscriber list as it was; with a callable argument it appends the
\* argument as the last element.
C4_SubscribeContract ==
    [][sub_last'.n # sub_last.n =>
         IF sub_last'.arg.callable
         THEN /\ callbacks' = Append(callbacks, sub_last'.arg)
              /\ sub_last'.error # "ValueError"
         ELSE /\ callbacks' = callbacks
              /\ sub_last'.error = "ValueError"]_vars

C4_Witness ==
    /\ Len(callbacks) = 1
    /\ sub_last.n = 2
    /\ ~sub_last.arg.callable
    /\ sub_last.error = "ValueError"

(***************************************************************************)
(* Properties of the scare programs (Spec).                                *)
(***************************************************************************)
Recording == variant \in RecordingVariants

\* on_motion is past its wait for the scare video.
PastVideo ==
    cpc \in {"join_record", "launch_playback", "wait_playback", "change_video", "draw"}

\* on_motion is past the join of the recording and its check of the
\* recording file.
PastFileCheck ==
    /\ obs.joined
    /\ cpc \in {"launch_playback", "wait_playback", "change_video", "draw", "idle"}

\* C5: in a cycle of the recording variants the scare video is launched
\* only after the recording has been launched, the thread leaves the wait
\* for the scare video only when the player has exited, and the
\* recording-playback player never runs (nor is about to be launched) while
\* the cycle's recording process is still running.
C5_RecordingOrder ==
    Recording =>
        /\ sub_video # "none" => sub_record \in {"running", "exited"}
        /\ PastVideo => sub_video \in {"exited", "failed"}
        /\ (sub_playback # "none" \/ cpc = "launch_playback") => sub_record = "exited"

\* The recording is not awaited at launch: the scare video plays while the
\* recording still runs.
C5_Witness ==
    /\ Recording
    /\ sub_record = "running"
    /\ sub_video = "running"
    /\ cpc = "wait_video"

\* C6: in the recording variants, when the recording process has been
\* joined and its file does not exist, the scare video has been launched
\* (Popen called) exactly once, the recording playback not at all, the
\* skip-playback warning is logged, and on_motion returns without an error.
C6_MissingRecording ==
    (Recording /\ sub_record = "exited" /\ ~recording_exists /\ PastFileCheck) =>
        /\ obs.video_launches = 1
        /\ obs.playback_launches = 0
        /\ sub_playback = "none"
        /\ obs.skip_warning
        /\ obs.result = IF cpc = "idle" THEN "completed" ELSE "running"

C6_Witness ==
    /\ variant = "recording"
    /\ sub_record = "exited"
    /\ ~recording_exists
    /\ sub_video = "exited"
    /\ cpc = "idle"
    /\ obs.cycles = 1
    /\ obs.skip_warning
    /\ obs.result = "completed"

\* C7: in a cycle of the recording variants a launch failure of one step
\* is caught for that step and the other steps still run: whenever
\* on_motion has returned from a cycle, the scare video was launched in it,
\* and the cycle did not end in on_motion's error handler.
C7_LaunchFailurePerStep ==
    (Recording /\ cpc = "idle" /\ obs.cycles > 0) =>
        /\ obs.video_launches = 1
        /\ obs.result = "completed"

RisingCalls == {i \in 1..Len(calls) : calls[i].state}

\* C8: on_motion(False) changes nothing in any variant (no process, no
\* recording path, no rotation check, no field of the sequencer or the
\* rotator), and the scare cycles started are exactly the on_motion(True)
\* calls, one cycle each.
C8_FallingEdgeNoOp ==
    /\ [](obs.cycles = Cardinality(RisingCalls))
    /\ [][(calls' # calls /\ ~curr_state) =>
            /\ cpc' = "idle"
            /\ UNCHANGED <<cfgVars, rotVars, procVars>>
            /\ UNCHANGED <<ppc, now, fbi_shown, fbi_starts, fbi_killed, exit_code, obs, cv>>]_vars

C8_Witness ==
    /\ Len(calls) = 2
    /\ calls[1].state
    /\ ~calls[2].state
    /\ obs.cycles = 1
    /\ obs.result = "completed"
    /\ dpc = "loop"

Interval == rotation_minutes * SecondsPerMinute

ChangeVideoEntered == cv.result # "none"

ChangeVideoReturned == cv.result \in {"not_due", "skipped", "rotated"}

\* C9: a change_video call that finds the elapsed time below the interval
\* leaves current_prefix, scare_file, new_prefix and start_time as they
\* were, draws nothing and shows no image.
C9_NotDueNoChange ==
    (ChangeVideoEntered /\ cv.elapsed < Interval) =>
        /\ cv.result = "not_due"
        /\ current_prefix = cv.old_prefix
        /\ scare_file = cv.old_file
        /\ new_prefix = cv.old_new_prefix
        /\ start_time = cv.old_start
        /\ cv.draws = 0
        /\ fbi_starts = cv.old_starts

C9_Witness ==
    /\ cv.result = "not_due"
    /\ cv.elapsed > 0
    /\ cv.elapsed < Interval
    /\ cpc = "idle"
    /\ obs.result = "completed"

C11_DrawsBounded ==
    /\ attempts <= MaxAttempts
    /\ cv.draws <= MaxAttempts
    /\ (cpc = "draw") => (cv.draws = attempts)
    /\ (ChangeVideoReturned /\ cv.result # "not_due" /\ Cardinality(themes) = 1) =>
            /\ cv.draws = MaxAttempts
            /\ cv.result = "skipped"
            /\ current_prefix = cv.old_prefix
            /\ scare_file = cv.old_file

C11_Witness ==
    /\ Cardinality(themes) = 1
    /\ cv.result = "skipped"
    /\ cv.elapsed > Interval
    /\ cv.draws = MaxAttempts
    /\ current_prefix = cv.old_prefix
    /\ cpc = "idle"

\* C12: every step in which change_video reassigns the current theme (the
\* step that ends in "rotated", the only one in the loop that shows a new
\* start image) installs a configured theme other than the one that was
\* current just before it, also in a call that follows a skipped rotation.
C12_RotationChangesTheme ==
    [][(ppc = "detecting" /\ (fbi_starts' # fbi_starts
                                \/ current_prefix' # current_prefix
                                \/ (cv'.result = "rotated" /\ cv.result # "rotated"))) =>
            /\ cv'.result = "rotated"
            /\ current_prefix' # current_prefix
            /\ current_prefix' = new_prefix
            /\ current_prefix' \in themes]_vars

\* A rotation made without a draw: the call before it was skipped on its
\* 10th draw and left new_prefix on another theme.
C12_Witness ==
    /\ cv.result = "rotated"
    /\ cv.draws = 0
    /\ current_prefix # cv.old_prefix
    /\ cv.old_new_prefix # cv.old_prefix
    /\ cpc = "idle"

\* C18: while the detector runs, current_prefix and scare_file change only
\* in change_video's rotation step, inside an on_motion(True) call whose
\* scare video and recording playback are over: no child process of the
\* cycle is running, the call in progress is a rising-edge one, and the
\* detector is dispatching (not polling).
C18_RotationOnlyAtCycleEnd ==
    [][(ppc = "detecting" /\ (current_prefix' # current_prefix \/ scare_file' # scare_file)) =>
            /\ cpc = "draw"
            /\ dpc = "dispatch"
            /\ curr_state
            /\ calls # <<>>
            /\ calls[Len(calls)].state
            /\ obs.video_launches = 1
            /\ sub_video \in {"exited", "failed"}
            /\ sub_record # "running"
            /\ sub_playback # "running"
            /\ scare_file' = VideoPath(current_prefix')]_vars

C18_Witness ==
    /\ cv.result = "rotated"
    /\ scare_file # cv.old_file
    /\ scare_file = VideoPath(current_prefix)
    /\ obs.playback_launches = 1
    /\ sub_playback = "exited"
    /\ Len(calls) = 1
    /\ cpc = "idle"

\* C19, as claimed: a change_video call attempts the rotation whenever the
\* elapsed time is >= the interval, equality included.
C19_DueAtInterval ==
    (ChangeVideoEntered /\ cv.elapsed >= Interval) => cv.result # "not_due"

\* C20, as claimed: a due change_video call keeps the current theme only
\* if none of its 10 draws differs from it; the loop stops at the first
\* differing draw, so new_prefix then still equals the theme kept.
C20_SkipOnlyIfNoDrawDiffers ==
    (cv.result = "skipped") => (new_prefix = cv.old_prefix)

(***************************************************************************)
(* Properties of startup and shutdown (Spec).                              *)
(***************************************************************************)
\* The text is a decimal numeral of a value above zero.
DenotesPositiveInteger(text) ==
    /\ text # <<>>
    /\ \A i \in 1..Len(text) : text[i] \in DecimalDigits
    /\ \E i \in 1..Len(text) : text[i] # "0"

\* No Detector made, no handler subscribed, no sample taken, no display,
\* recording or playback process launched.
NothingStarted ==
    /\ dpc = "none"
    /\ callbacks = <<>>
    /\ sub_last.n = 0
    /\ notified = <<>>
    /\ calls = <<>>
    /\ fbi_starts = 0
    /\ fbi_shown = NoTheme
    /\ obs = NoCycle
    /\ sub_record = "none"
    /\ sub_video = "none"
    /\ sub_playback = "none"

\* C13: scarerandom.py given a Minutes argument that is not a positive
\* integer has, once main has acted, exited with code 1 with no Detector
\* constructed, no handler subscribed and no process launched.
C13_BadMinutesExit ==
    (variant = "rotating" /\ Len(argv) >= 2 /\ ~DenotesPositiveInteger(argv[2])
        /\ ppc # "main") =>
        /\ ppc = "exited"
        /\ exit_code = 1
        /\ NothingStarted

C13_Witness ==
    /\ variant = "rotating"
    /\ argv = <<"Male", <<"0">>>>
    /\ ppc = "exited"
    /\ exit_code = 1

\* C14: scarerandom.py started with a theme that is not in the configured
\* theme set has, once main has acted, exited with a non-zero code with no
\* handler subscribed, no Detector constructed and no process launched,
\* the start-image display included.
C14_UnknownThemeExit ==
    (variant = "rotating" /\ Len(argv) >= 1 /\ argv[1] \notin themes /\ ppc # "main") =>
        /\ ppc = "exited"
        /\ exit_code > 0
        /\ NothingStarted

C14_Witness ==
    /\ variant = "rotating"
    /\ argv = <<"Child", <<"1">>>>
    /\ themes = {"Male", "Female"}
    /\ ppc = "exited"
    /\ exit_code = 1

\* C15, as claimed: whenever the program has exited after the start image
\* was displayed, the teardown has run: the display process was stopped
\* and the sensor released.
C15_TeardownOnEveryExit ==
    (ppc = "exited" /\ fbi_starts > 0) =>
        /\ fbi_killed > 0
        /\ gpio_released > 0

C17_NoSampleDuringCycle ==
    /\ [](cpc \notin {"idle", "abandoned"} => dpc = "dispatch")
    /\ [][cpc # "idle" => UNCHANGED <<curr_state, prev_state, notified, calls>>]_vars
    /\ [][obs'.cycles # obs.cycles =>
            (cpc = "idle" /\ obs'.cycles = obs.cycles + 1)]_vars
    /\ [][notified' # notified =>
            /\ cpc = "idle"
            /\ notified' = Append(notified, pin)
            /\ pin # curr_state]_vars

\* The pin changed during a completed cycle and is high at the next
\* sample: nothing is notified.
C17_Witness ==
    /\ obs.pin_moved
    /\ obs.result = "completed"
    /\ cpc = "idle"
    /\ dpc = "loop"
    /\ pin
    /\ curr_state
    /\ prev_state
    /\ notified = <<TRUE>>

(***************************************************************************)
(* Further properties of the rotation (Spec).                              *)
(***************************************************************************)
\* C21: the step of change_video that rotates sets the current theme to
\* the drawn one (new_prefix) and start_time to the clock's value at that
\* step, and shows one start image, that of the new theme; after a skipped
\* rotation the theme, the scare file, start_time and the display are as
\* before the call, and the next change_video call finds the rotation due.
C21_RotationEffects ==
    /\ [][(cv'.result = "rotated" /\ cv.result # "rotated") =>
            /\ current_prefix' = new_prefix
            /\ current_prefix' \in themes
            /\ start_time' = now
            /\ fbi_starts' = fbi_starts + 1
            /\ fbi_shown' = current_prefix']_vars
    /\ [](cv.result = "rotated" =>
            /\ current_prefix = new_prefix
            /\ start_time >= cv.old_start + cv.elapsed
            /\ fbi_starts = cv.old_starts + 1
            /\ fbi_shown = current_prefix)
    /\ [](cv.result = "skipped" =>
            /\ current_prefix = cv.old_prefix
            /\ scare_file = cv.old_file
            /\ start_time = cv.old_start
            /\ fbi_starts = cv.old_starts
            /\ fbi_shown = cv.old_prefix)
    /\ [][(cv.result = "skipped" /\ cv' # cv) =>
            /\ cv'.result = "drawing"
            /\ cv'.elapsed >= cv.elapsed
            /\ cv'.old_start = cv.old_start]_vars

\* A rotation in the second cycle, at a later time than the skipped one of
\* the first cycle.
C21_Witness ==
    /\ cv.result = "rotated"
    /\ obs.cycles = 2
    /\ cv.old_new_prefix # cv.old_prefix
    /\ cv.old_start = 0
    /\ start_time = now
    /\ start_time > Interval
    /\ fbi_starts = 2
    /\ fbi_shown = current_prefix
    /\ cpc = "idle"

\* C27: in scarerandom.py, once run() has set the initial theme,
\* scare_file is media_dir/<current_prefix><video_suffix> in every state.
C27_ScareFileFollowsTheme ==
    (variant = "rotating" /\ current_prefix # NoTheme) =>
        scare_file = <<"media_dir", current_prefix, "video_suffix">>

\* After a skipped rotation in the first cycle and a rotation in the
\* second, which began with a failed launch of the scare video.
C27_Witness ==
    /\ variant = "rotating"
    /\ argv[1] = "Male"
    /\ cv.result = "rotated"
    /\ cv.draws = 0
    /\ obs.cycles = 2
    /\ sub_video = "failed"
    /\ current_prefix = "Female"
    /\ scare_file = <<"media_dir", "Female", "video_suffix">>
    /\ cpc = "idle"

\* C28: a scare cycle of scarerandom.py calls change_video at most once,
\* and only from the end of an on_motion(True) call whose children are
\* over; a cycle that ended in on_motion's error handler called it not at
\* all; the theme and start_time change only in a cycle that called it.
C28_RotationCheckOncePerCycle ==
    /\ [](obs.checks <= 1)
    /\ []((obs.rec_failed \/ obs.result = "error") => obs.checks = 0)
    /\ [][obs'.checks > obs.checks =>
            /\ cpc = "change_video"
            /\ curr_state
            /\ obs.checks = 0
            /\ obs.video_launches = 1
            /\ sub_video # "running"
            /\ sub_record = "exited"
            /\ sub_playback # "running"]_vars
    /\ [][(ppc = "detecting"
             /\ (current_prefix' # current_prefix \/ start_time' # start_time)) =>
            obs.checks = 1]_vars

\* The recorder could not be launched although the rotation was due.
C28_Witness ==
    /\ variant = "rotating"
    /\ obs.rec_failed
    /\ obs.result = "error"
    /\ obs.checks = 0
    /\ cpc = "idle"
    /\ dpc = "loop"
    /\ now - start_time > Interval
    /\ cv.result = "none"

(***************************************************************************)
(* Further properties of the Detector.                                     *)
(***************************************************************************)
\* The samples with every failed read replaced by an inactive one.
FailedAsInactive(s) == [i \in 1..Len(s) |-> IF s[i] = "fail" THEN "inactive" ELSE s[i]]

\* C22, as claimed (DetectorSpec): the edges notified over any sequence of
\* reads are those of the same sequence with every failed read taken as
\* inactive; a failed read right after an active one is a falling edge.
C22_FailedReadIsInactive ==
    notified = EdgesOf(FailedAsInactive(samples))

\* C26 (Spec): the states of consecutive notifications alternate, and
\* on_motion is called with them one by one: between two on_motion(True)
\* calls, the starts of two scare cycles, there is an on_motion(False).
C26_NotificationsAlternate ==
    /\ \A i \in 1..(Len(notified) - 1) : notified[i + 1] # notified[i]
    /\ \A i \in 1..(Len(calls) - 1) : calls[i + 1].state # calls[i].state
    /\ Len(calls) \in {Len(notified) - 1, Len(notified)}
    /\ \A i \in 1..Len(calls) : calls[i].state = notified[i]

\* Two cycles with the falling edge between them, the pin having moved
\* during the second.
C26_Witness ==
    /\ notified = <<TRUE, FALSE, TRUE>>
    /\ Len(calls) = 3
    /\ obs.cycles = 2
    /\ obs.pin_moved
    /\ obs.result = "completed"
    /\ dpc = "loop"

(***************************************************************************)
(* Child processes of the recording variants (Spec).                       *)
(***************************************************************************)
\* The raspivid processes alive: that of the current or last cycle and
\* those earlier cycles left running.
RecordersAlive == old_records + (IF sub_record = "running" THEN 1 ELSE 0)

\* C24, as claimed: in scare2.py and scarerandom.py at most one recording
\* process and at most one player launched by on_motion are alive, and
\* whenever on_motion has returned the recording process of that call is
\* not running.
C24_OneRecorderAtATime ==
    Recording =>
        /\ RecordersAlive <= 1
        /\ ~(sub_video = "running" /\ sub_playback = "running")
        /\ (cpc = "idle" => sub_record # "running")

(***************************************************************************)
(* Startup: media files and config.yaml (Spec).                            *)
(***************************************************************************)
\* C23, as claimed: in scare.py and scare2.py, when the theme's scare video
\* or start image is missing at startup, the program exits with a non-zero
\* status before the detection loop: no Detector is made or started, no
\* sample is taken and no handler is called.
C23_MissingMediaExit ==
    (variant \in {"simple", "recording"} /\ ~host.media /\ ppc # "main") =>
        /\ ppc = "exited"
        /\ exit_code > 0
        /\ dpc = "none"
        /\ samples = <<>>
        /\ calls = <<>>

\* The command line is one main and run accept: enough arguments, for
\* scarerandom.py a positive number of minutes and a configured theme.
ArgsValid ==
    /\ ~MainRejects
    /\ variant = "rotating" => ValidateTheme(argv[1])

\* C25, as claimed: with config.yaml missing every variant runs on its
\* default configuration and, the media files being there and the command
\* line valid (and the GPIO and the recordings directory usable), it
\* reaches the detection loop instead of exiting at startup; with a
\* config.yaml the parser rejects it exits with 1 having started nothing.
C25_MissingConfigStarts ==
    /\ (/\ host.config = "missing"
        /\ host.media /\ host.gpio /\ host.recordings_dir
        /\ ArgsValid
        /\ ppc # "main") => dpc # "none"
    /\ (host.config = "malformed" /\ ppc # "main") =>
            (ppc = "exited" /\ exit_code = 1 /\ NothingStarted)

(***************************************************************************)
(* Progress of the scare cycle and of the polling loop (FairSpec).         *)
(***************************************************************************)
\* C29: no interrupt occurring and every child process waited for exiting,
\* a scare cycle that has started returns (in scarerandom.py from its
\* rotation check too), trigger_callbacks returns to the polling loop, and
\* in the loop the next sample can always be taken: no handler stops the
\* sampling for good.
C29_CyclesComplete ==
    /\ (cpc # "idle") ~> (cpc = "idle" /\ dpc = "loop")
    /\ (dpc = "dispatch") ~> (dpc = "loop")
    /\ (cpc \in {"change_video", "draw"}) ~> (cpc = "idle" /\ obs.checks = 1)
    /\ []((ppc = "detecting" /\ dpc = "loop") => ENABLED ProgramPoll)

\* The loop has the control again after the second cycle of scarerandom.py,
\* which recorded, played the video and the recording and rotated.
C29_Witness ==
    /\ variant = "rotating"
    /\ obs.cycles = 2
    /\ obs.result = "completed"
    /\ obs.playback_launches = 1
    /\ cv.result = "rotated"
    /\ cpc = "idle"
    /\ dpc = "loop"

====
